---- MODULE Spec2Model ----
(***************************************************************************)
(* Model of the API gateway in main.go: the health-aware round-robin       *)
(* LoadBalancer, the token-bucket RateLimiter, the health checker and the  *)
(* request dispatcher (handleRequest) with its RequestLogger.              *)
(*                                                                         *)
(* Token counts are float64 in the source.  Time is modelled in whole      *)
(* seconds and a token count as an integer number of 1/60 tokens, so that  *)
(* elapsed * (limit / 60.0) is exact: 1 token = TokenUnit units and a      *)
(* bucket of limit L gains L units per second.                             *)
(***************************************************************************)
EXTENDS Integers, Sequences, FiniteSets, TLC

\* ---- bounds of the model ----
NumBackends == 3
NumHandlers == 2
MaxRequests == 5
MaxTime == 75
MaxInflight == 1
\* requests followed beside the health checker in SpecHC
HCRequests == 1
\* requests followed beside the failing and recovering backends in SpecHL
HLRequests == 1
\* requests followed from the load balancer to the log in SpecFW
FWRequests == 2
\* requests, /health calls among them, followed in SpecHE
HERequests == 2
\* requests of the IPv6 peers followed through the rate limiter in SpecV6
V6Requests == 3
\* requests followed through the whole pipeline in SpecRW
RWRequests == 3
\* probes of one backend that run at a time in SpecOV
MaxOverlap == 2
\* requests followed beside the overlapping probes in SpecOV
OVRequests == 1
\* LoadBalancer.Next calls followed in SpecNB
NBRequests == 4
\* requests followed through the rate limiter and Next in SpecCH
CHRequests == 3
\* requests, /health calls among them, followed in SpecDL
DLRequests == 2
\* requests followed to the log in SpecLG
LGRequests == 4
\* requests followed through the whole pipeline in SpecGW
GWRequests == 4

\* ---- program constants ----
TokenUnit == 60
DefaultRateLimit == 100
DefaultKeyRateLimit == 1000
StatusOK == 200
StatusUnauthorized == 401
StatusTooManyRequests == 429
StatusBadGateway == 502
StatusServiceUnavailable == 503

Backends == 0 .. (NumBackends - 1)
Handlers == 1 .. NumHandlers
None == -1
NoHolder == 0
\* the checkBackendHealth goroutine as the holder of a lock
Prober == NumHandlers + 1
\* resp, err before any probe has come back
NoOutcome == [err |-> FALSE, code |-> 0]
\* no status-change line written yet
NoNote == [last |-> "", odd |-> FALSE]

\* runGateway: the API-key whitelist
APIKeys == {"key-test-1", "key-test-2", "key-admin"}

\* r.RemoteAddr as the list of its ":"-separated segments (strings.Split)
RemoteAddrs == { <<"10.0.0.1", "5000">>, <<"10.0.0.2", "5000">> }
\* r.RemoteAddr of two IPv6 peers, "[2001:db8::1]:5000" and
\* "[2001:db8::2]:5000", as the lists of their ":"-separated segments
RemoteAddrs6 == { <<"[2001", "db8", "", "1]", "5000">>,
                  <<"[2001", "db8", "", "2]", "5000">> }
\* values of the X-API-Key header ("" = header absent)
KeyHeaders == {"", "key-admin", "bogus"}
\* seconds by which the clock is observed to advance
TickSteps == {15, 30}
\* statuses a backend answers
ProxyStatuses == {StatusOK, StatusBadGateway}

VARIABLES
  config,     \* Config: RateLimitPerIP, RateLimitPerKey
  nb,         \* len(lb.backends)
  alive,      \* Backend.Alive, per backend index
  current,    \* LoadBalancer.current
  lbMu,       \* holder of LoadBalancer.mu
  ipLimits,   \* RateLimiter.ipLimits: ip -> TokenBucket
  keyLimits,  \* RateLimiter.keyLimits: key -> TokenBucket
  rlMu,       \* holder of RateLimiter.mu
  now,        \* time.Now(), in seconds
  probes,     \* checkBackendHealth goroutines in flight, per backend
  backendMu,  \* holder of Backend.mu, per backend index
  probeRes,   \* resp, err of the checkBackendHealth call that last took
              \* Backend.mu, per backend index
  flight,     \* the checkBackendHealth goroutines of each backend in the
              \* order they were started: in client.Get ("io"), in the
              \* critical section ("locked", with wasAlive and resp, err),
              \* or ended while an older one still runs ("done")
  newest,     \* history: per backend index, the value its flag was given by
              \* the most recently started of the probes that have ended
  down,       \* environment: the backends whose /health does not answer 200
  notes,      \* the status-change lines log.Printf has written, per backend
              \* index: the last of them, and whether their number is odd
  req,        \* the handleRequest goroutines
  nreq,       \* number of requests received so far
  logFile,    \* RequestLogger.file: the lines written, each an entry or
              \* a line that is no entry
  logPart,    \* RequestLogger.file: what is written after the last newline
  logMu,      \* holder of RequestLogger.mu
  logAcq,     \* history: the entries of the Log calls, in the order they
              \* took RequestLogger.mu
  picks,      \* history: the LoadBalancer.Next calls returned since the
              \* last change of a liveness flag
  flipped,    \* history: some liveness flag has changed since startup
  rlHist,     \* history: the RateLimiter.Allow calls made
  rlPre       \* history: the bucket maps before the last Allow call, and
              \* the handler that made it

vars == << config, nb, down, alive, current, lbMu, ipLimits, keyLimits, rlMu, now,
           probes, backendMu, probeRes, notes, req, nreq, logFile, logPart,
           logMu, logAcq, picks, flipped, rlHist, rlPre, flight, newest >>

hcVars == << backendMu, probeRes >>
pfVars == << flight, newest >>
logVars == << logPart, logMu, logAcq >>
lbVars == << alive, current, lbMu, probes, backendMu, probeRes, notes, picks,
            flipped >>
rlVars == << ipLimits, keyLimits, rlMu, rlHist, rlPre >>

Min(a, b) == IF a < b THEN a ELSE b

\* strings.Split(r.RemoteAddr, ":")[0]
ClientIP(remoteAddr) == remoteAddr[1]

\* the peer address of the connection: r.RemoteAddr without its last
\* segment, the port
PeerIP(remoteAddr) == SubSeq(remoteAddr, 1, Len(remoteAddr) - 1)

\* what a handler found in the bucket maps when it looked its identities up
NotSeen == [ip |-> FALSE, key |-> FALSE]

IdleReq == [pc |-> "idle", peer |-> << >>, ip |-> "", key |-> "",
            seen |-> NotSeen,
            start |-> 0, i |-> 0, dirty |-> FALSE, live |-> FALSE,
            backend |-> None, failed |-> FALSE, status |-> 0, error |-> "",
            healthy |-> 0, counts |-> {}, written |-> FALSE, client |-> 0]

\* ---- TokenBucket ----

NewBucket(limit, t) ==
  [tokens |-> limit * TokenUnit, capacity |-> limit * TokenUnit,
   refillRate |-> limit, lastRefill |-> t]

\* faulty variant: the refill is not capped at the capacity
refillNoCap(tb, t) ==
  [tb EXCEPT !.tokens = tb.tokens + (t - tb.lastRefill) * tb.refillRate,
             !.lastRefill = t]

\* faulty variant: the refill forgets to move lastRefill
refillNoStamp(tb, t) ==
  [tb EXCEPT !.tokens = Min(tb.capacity,
                            tb.tokens + (t - tb.lastRefill) * tb.refillRate)]

refill(tb, t) ==
  [tb EXCEPT !.tokens = Min(tb.capacity,
                            tb.tokens + (t - tb.lastRefill) * tb.refillRate),
             !.lastRefill = t]

\* faulty variant: a request needs more than one whole token
consumeStrict(tb, t) ==
  LET rb == refill(tb, t)
  IN IF rb.tokens > TokenUnit
       THEN [bucket |-> [rb EXCEPT !.tokens = rb.tokens - TokenUnit], ok |-> TRUE]
       ELSE [bucket |-> rb, ok |-> FALSE]

\* the tail of allowIP / allowKey: refill, then take one token if there is one
consume(tb, t) ==
  LET rb == refill(tb, t)
  IN IF rb.tokens >= TokenUnit
       THEN [bucket |-> [rb EXCEPT !.tokens = rb.tokens - TokenUnit], ok |-> TRUE]
       ELSE [bucket |-> rb, ok |-> FALSE]

\* faulty variant: a new bucket is made on every call
allowInRenew(limits, exists, id, limit, t) ==
  LET c == consume(NewBucket(limit, t), t)
  IN [limits |-> [x \in (DOMAIN limits) \cup {id} |->
                    IF x = id THEN c.bucket ELSE limits[x]],
      ok |-> c.ok, created |-> TRUE]

\* allowIP / allowKey on a map: take the bucket the lookup found (exists) or
\* create and insert one, then consume
allowIn(limits, exists, id, limit, t) ==
  LET bucket == IF exists /\ id \in DOMAIN limits
                  THEN limits[id] ELSE NewBucket(limit, t)
      c == consume(bucket, t)
  IN [limits |-> [x \in (DOMAIN limits) \cup {id} |->
                    IF x = id THEN c.bucket ELSE limits[x]],
      ok |-> c.ok, created |-> ~exists]

allowIP(ip, limit, t, exists) == allowIn(ipLimits, exists, ip, limit, t)

allowKey(key, limit, t, exists) == allowIn(keyLimits, exists, key, limit, t)

\* faulty variant: the key bucket is never consulted
AllowSkipKey(ip, key, cfg, t, seen) ==
  LET a == allowIP(ip, cfg.RateLimitPerIP, t, seen.ip)
  IN [ip |-> a.limits, key |-> keyLimits, ok |-> a.ok, ipOk |-> a.ok,
      ipNew |-> a.created, keyNew |-> FALSE]

\* faulty variant: the key bucket is charged before the IP verdict is looked at
AllowChargeBoth(ip, key, cfg, t, seen) ==
  LET a == allowIP(ip, cfg.RateLimitPerIP, t, seen.ip)
      k == allowKey(key, cfg.RateLimitPerKey, t, seen.key)
  IN IF key # ""
       THEN [ip |-> a.limits, key |-> k.limits, ok |-> a.ok /\ k.ok,
             ipOk |-> a.ok, ipNew |-> a.created, keyNew |-> k.created]
       ELSE [ip |-> a.limits, key |-> keyLimits, ok |-> a.ok, ipOk |-> a.ok,
             ipNew |-> a.created, keyNew |-> FALSE]

\* faulty variant: the IP token is given back when the key bucket denies
AllowRefund(ip, key, cfg, t, seen) ==
  LET a == allowIP(ip, cfg.RateLimitPerIP, t, seen.ip)
  IN IF ~a.ok
       THEN [ip |-> a.limits, key |-> keyLimits, ok |-> FALSE, ipOk |-> FALSE,
             ipNew |-> a.created, keyNew |-> FALSE]
       ELSE IF key # ""
         THEN LET k == allowKey(key, cfg.RateLimitPerKey, t, seen.key)
              IN [ip |-> IF k.ok THEN a.limits
                         ELSE [a.limits EXCEPT ![ip].tokens = @ + TokenUnit],
                  key |-> k.limits, ok |-> k.ok, ipOk |-> TRUE,
                  ipNew |-> a.created, keyNew |-> k.created]
         ELSE [ip |-> a.limits, key |-> keyLimits, ok |-> TRUE, ipOk |-> TRUE,
               ipNew |-> a.created, keyNew |-> FALSE]

\* RateLimiter.Allow, the body run under rl.mu
Allow(ip, key, cfg, t, seen) ==
  LET a == allowIP(ip, cfg.RateLimitPerIP, t, seen.ip)
  IN IF ~a.ok
       THEN [ip |-> a.limits, key |-> keyLimits, ok |-> FALSE, ipOk |-> FALSE,
             ipNew |-> a.created, keyNew |-> FALSE]
       ELSE IF key # ""
         THEN LET k == allowKey(key, cfg.RateLimitPerKey, t, seen.key)
              IN [ip |-> a.limits, key |-> k.limits, ok |-> k.ok, ipOk |-> TRUE,
                  ipNew |-> a.created, keyNew |-> k.created]
         ELSE [ip |-> a.limits, key |-> keyLimits, ok |-> TRUE, ipOk |-> TRUE,
               ipNew |-> a.created, keyNew |-> FALSE]

\* ---- initial state: NewGateway ----

\* the gateway with no request in it and the backends of live alive: as
\* NewGateway leaves it (live = Backends), or as the health checker has left
\* it since
InitOf(cfg, live, n) ==
  /\ config = cfg
  /\ nb = n
  /\ down = Backends \ live
  /\ alive = [b \in Backends |-> b \in live]
  /\ current = 0
  /\ lbMu = NoHolder
  /\ ipLimits = << >>
  /\ keyLimits = << >>
  /\ rlMu = NoHolder
  /\ now = 0
  /\ probes = [b \in Backends |-> 0]
  /\ backendMu = [b \in Backends |-> NoHolder]
  /\ probeRes = [b \in Backends |-> NoOutcome]
  /\ flight = [b \in Backends |-> << >>]
  /\ newest = [b \in Backends |-> b \in live]
  /\ notes = [b \in Backends |->
                IF b \in live THEN NoNote ELSE [last |-> "unhealthy", odd |-> TRUE]]
  /\ req = [h \in Handlers |-> IdleReq]
  /\ nreq = 0
  /\ logFile = << >>
  /\ logPart = << >>
  /\ logMu = NoHolder
  /\ logAcq = << >>
  /\ picks = << >>
  /\ flipped = (live # Backends)
  /\ rlHist = << >>
  /\ rlPre = [ip |-> << >>, key |-> << >>, by |-> NoHolder]

InitAt(cfg, live) == InitOf(cfg, live, NumBackends)

InitWith(cfg) == InitAt(cfg, Backends)

Init == InitWith([RateLimitPerIP |-> 2, RateLimitPerKey |-> 1])

\* ---- sync.Mutex ----

\* faulty variant: a lock that excludes nobody
CanLockAlways(mu) == TRUE

CanLock(mu) == mu = NoHolder

\* faulty variant: the return path forgets the lock
UnlockForgot(mu, h) == mu

\* mu.Unlock() by its holder h
Unlock(mu, h) == IF mu = h THEN NoHolder ELSE mu

\* ---- handleRequest ----

\* the free handler goroutine that serves the next connection
NextHandler == CHOOSE h \in Handlers :
                 /\ req[h].pc = "idle"
                 /\ \A g \in Handlers : req[g].pc = "idle" => h <= g

\* faulty variant: a request without the header is rejected too
KeyRejectedNoHeader(apiKey) == apiKey \notin APIKeys

\* lines 196-199: the header is present and g.config.APIKeys[apiKey] is false
KeyRejected(apiKey) == apiKey # "" /\ apiKey \notin APIKeys

\* faulty variant: the return after the 401 is missing
AfterAuthNoReturn(rejected) == "allow"

\* lines 199-205: a rejected request is logged and answered, the others go
\* on to the rate limiter
AfterAuth(rejected) == IF rejected THEN "log" ELSE "allow"

\* lines 184-206: client IP, X-API-Key, auth check
Receive(h, remoteAddr, apiKey) ==
  /\ nreq < MaxRequests
  /\ \E g \in Handlers : req[g].pc = "idle"
  /\ h = NextHandler
  /\ nreq' = nreq + 1
  /\ req' = [req EXCEPT ![h] =
        IF KeyRejected(apiKey)
          THEN [IdleReq EXCEPT !.pc = AfterAuth(TRUE),
                               !.peer = PeerIP(remoteAddr),
                               !.ip = ClientIP(remoteAddr),
                               !.key = apiKey, !.status = StatusUnauthorized,
                               !.client = StatusUnauthorized,
                               !.error = "invalid API key"]
          ELSE [IdleReq EXCEPT !.pc = AfterAuth(FALSE),
                               !.peer = PeerIP(remoteAddr),
                               !.ip = ClientIP(remoteAddr),
                               !.key = apiKey]]
  /\ UNCHANGED logVars
  /\ UNCHANGED pfVars
  /\ UNCHANGED << config, nb, down, now, logFile >>
  /\ UNCHANGED lbVars
  /\ UNCHANGED rlVars

\* RateLimiter.Allow: rl.mu.Lock(), and the map lookups of allowIP and
\* allowKey (bucket, exists := ...), which nothing can separate from the
\* rest of the body while the lock excludes the other callers
AllowLock(h) ==
  /\ req[h].pc = "allow"
  /\ CanLock(rlMu)
  /\ rlMu' = h
  /\ req' = [req EXCEPT ![h].pc = "allowLocked",
                        ![h].seen = [ip |-> req[h].ip \in DOMAIN ipLimits,
                                     key |-> req[h].key \in DOMAIN keyLimits]]
  /\ UNCHANGED logVars
  /\ UNCHANGED pfVars
  /\ UNCHANGED << config, nb, down, now, nreq, logFile, ipLimits, keyLimits, rlHist, rlPre >>
  /\ UNCHANGED lbVars

\* faulty variant: the return after the 429 is missing
AfterAllowNoReturn(ok) == "next"

\* handleRequest lines 209-215: a denied request is logged and answered, an
\* allowed one goes on to the load balancer
AfterAllow(ok) == IF ok THEN "next" ELSE "log"

\* RateLimiter.Allow: the body and the deferred rl.mu.Unlock(), then
\* handleRequest lines 209-215
AllowBody(h) ==
  /\ req[h].pc = "allowLocked"
  /\ LET a == Allow(req[h].ip, req[h].key, config, now, req[h].seen)
     IN /\ ipLimits' = a.ip
        /\ keyLimits' = a.key
        /\ rlHist' = Append(rlHist,
              [peer |-> req[h].peer,
               ip |-> req[h].ip, key |-> req[h].key, t |-> now,
               ipOk |-> a.ipOk, ok |-> a.ok,
               ipLeft |-> a.ip[req[h].ip].tokens,
               ipNew |-> a.ipNew, keyNew |-> a.keyNew])
        /\ rlPre' = [ip |-> ipLimits, key |-> keyLimits, by |-> h]
        /\ req' = [req EXCEPT ![h] =
              IF a.ok
                THEN [@ EXCEPT !.pc = AfterAllow(TRUE), !.seen = NotSeen]
                ELSE [@ EXCEPT !.pc = AfterAllow(FALSE), !.seen = NotSeen,
                               !.status = StatusTooManyRequests,
                               !.client = StatusTooManyRequests,
                               !.error = "rate limit exceeded"]]
  /\ rlMu' = Unlock(rlMu, h)
  /\ UNCHANGED logVars
  /\ UNCHANGED pfVars
  /\ UNCHANGED << config, nb, down, now, nreq, logFile >>
  /\ UNCHANGED lbVars

\* ---- LoadBalancer.Next ----

\* faulty variant: the scan goes backwards from the cursor
ScanIdxBack(start, i) == (start + NumBackends - i) % NumBackends

ScanIdx(start, i) == (start + i) % nb

\* faulty variant: the cursor is not taken modulo the number of backends
AdvanceNoWrap(idx) == idx + 1

\* faulty variant: the cursor is left on the backend returned
AdvanceStuck(idx) == idx % NumBackends

Advance(idx) == (idx + 1) % nb

\* faulty variant: the scan stops one position early
ScanDoneEarly(i) == i >= NumBackends - 1

\* the loop condition i < len(lb.backends), negated
ScanDone(i) == i >= nb

\* faulty variant: the liveness flag is not consulted
IsAliveAlways(idx) == idx \in Backends

\* lb.backends[idx].Alive
IsAlive(idx) == alive[idx]

\* faulty variant: the return after the 503 is missing
AfterNextNoReturn(ret) == "proxy"

\* handleRequest lines 219-227: without a backend the request is logged and
\* answered, with one it is forwarded
AfterNext(ret) == IF ret = None THEN "log" ELSE "proxy"

\* lb.mu.Lock(); start := lb.current
NextLock(h) ==
  /\ req[h].pc = "next"
  /\ CanLock(lbMu)
  /\ lbMu' = h
  /\ req' = [req EXCEPT ![h].pc = "nextScan", ![h].start = current, ![h].i = 0,
                        ![h].dirty = FALSE,
                        ![h].live = \E b \in Backends : alive[b]]
  /\ UNCHANGED logVars
  /\ UNCHANGED pfVars
  /\ UNCHANGED << config, nb, down, now, nreq, logFile, alive, current, probes, picks,
                  flipped, notes >>
  /\ UNCHANGED hcVars
  /\ UNCHANGED rlVars

\* one iteration of the scan loop (or its exit), the deferred lb.mu.Unlock()
\* on return, then handleRequest lines 219-227.  Next reads Backend.Alive
\* under lb.mu only, while checkBackendHealth writes it under backend.mu: the
\* two are not ordered, so each read of the loop is a step of its own and a
\* write may fall between any two of them; a read racing with a write sees
\* the value before or after it.
NextStep(h) ==
  /\ req[h].pc = "nextScan"
  /\ LET idx == ScanIdx(req[h].start, req[h].i)
         ev(ret) == [ret |-> ret, start |-> req[h].start,
                     live |-> req[h].live, dirty |-> req[h].dirty]
     IN IF ScanDone(req[h].i)
          THEN /\ current' = current
               /\ lbMu' = Unlock(lbMu, h)
               /\ picks' = Append(picks, ev(None))
               /\ req' = [req EXCEPT ![h] =
                     [IdleReq EXCEPT !.pc = AfterNext(None), !.ip = req[h].ip,
                                     !.key = req[h].key,
                                     !.status = StatusServiceUnavailable,
                                     !.client = StatusServiceUnavailable,
                                     !.error = "no healthy backends available"]]
          ELSE IF IsAlive(idx)
            THEN /\ current' = Advance(idx)
                 /\ lbMu' = Unlock(lbMu, h)
                 /\ picks' = Append(picks, ev(idx))
                 /\ req' = [req EXCEPT ![h] =
                       [IdleReq EXCEPT !.pc = AfterNext(idx), !.ip = req[h].ip,
                                       !.key = req[h].key, !.backend = idx]]
            ELSE /\ req' = [req EXCEPT ![h].i = @ + 1]
                 /\ UNCHANGED << current, lbMu, picks >>
  /\ UNCHANGED logVars
  /\ UNCHANGED pfVars
  /\ UNCHANGED << config, nb, down, now, nreq, logFile, alive, probes, flipped, notes >>
  /\ UNCHANGED hcVars
  /\ UNCHANGED rlVars

\* faulty variant: a failed forward sends the request back to the load
\* balancer
AfterProxyRetry(failed) == IF failed THEN "next" ELSE "log"

\* lines 233-239: whatever ServeHTTP did, the entry is written next
AfterProxy(failed) == "log"

\* ---- responseWriter ----

\* an interim response, which httputil.ReverseProxy hands on to the client
\* with rw.WriteHeader(code) before the final response of the backend
StatusEarlyHints == 103

\* responseWriter.WriteHeader on the request record r: the first call sets
\* statusCode and written and calls the WriteHeader of the server's
\* writer, every later call does nothing. client is the status of the
\* final response the server's writer has been given: an interim status
\* (1xx) is sent on and leaves the final one open.
WriteHeader(r, code) ==
  IF ~r.written
    THEN [r EXCEPT !.status = code, !.written = TRUE,
                   !.client = IF code \div 100 = 1 THEN @ ELSE code]
    ELSE r

\* the server's writer at the first Write of the body, or when the handler
\* returns: a response whose final header was never written goes out as 200
Finish(r) == IF r.client = 0 THEN [r EXCEPT !.client = StatusOK] ELSE r

\* backend.Proxy.ServeHTTP(wrapped, r): the backend sends an interim
\* response first
ProxyInterim(h) ==
  /\ req[h].pc = "proxy"
  /\ ~req[h].written
  /\ req' = [req EXCEPT ![h] = WriteHeader(@, StatusEarlyHints)]
  /\ UNCHANGED logVars
  /\ UNCHANGED pfVars
  /\ UNCHANGED << config, nb, down, now, nreq, logFile >>
  /\ UNCHANGED lbVars
  /\ UNCHANGED rlVars

\* backend.Proxy.ServeHTTP(wrapped, r): the backend answers, the proxy
\* calls WriteHeader with its status and copies the body, and the wrapped
\* writer captures the status
Proxy(h, status) ==
  /\ req[h].pc = "proxy"
  /\ req' = [req EXCEPT ![h] =
        Finish(WriteHeader([@ EXCEPT !.pc = AfterProxy(FALSE)], status))]
  /\ UNCHANGED logVars
  /\ UNCHANGED pfVars
  /\ UNCHANGED << config, nb, down, now, nreq, logFile >>
  /\ UNCHANGED lbVars
  /\ UNCHANGED rlVars

\* faulty variant: a failed forward marks the backend dead
ProxyFailMarksDead(h) ==
  /\ req[h].pc = "proxy"
  /\ req' = [req EXCEPT ![h].pc = AfterProxy(TRUE), ![h].failed = TRUE,
                        ![h].status = StatusBadGateway]
  /\ alive' = [alive EXCEPT ![req[h].backend] = FALSE]
  /\ UNCHANGED logVars
  /\ UNCHANGED pfVars
  /\ UNCHANGED << config, nb, down, now, nreq, logFile, current, lbMu, probes,
                  backendMu, probeRes, notes, picks, flipped >>
  /\ UNCHANGED rlVars

\* backend.Proxy.ServeHTTP(wrapped, r): the forward fails before a response
\* has started (connection refused or reset, transport timeout, request
\* cancelled); the ErrorHandler of httputil.ReverseProxy answers 502, and
\* handleRequest sets nothing but the status in the entry
ProxyFail(h) ==
  /\ req[h].pc = "proxy"
  /\ req' = [req EXCEPT ![h] =
        Finish(WriteHeader([@ EXCEPT !.pc = AfterProxy(TRUE), !.failed = TRUE],
                           StatusBadGateway))]
  /\ UNCHANGED logVars
  /\ UNCHANGED pfVars
  /\ UNCHANGED << config, nb, down, now, nreq, logFile >>
  /\ UNCHANGED lbVars
  /\ UNCHANGED rlVars

\* backend.Proxy.ServeHTTP(wrapped, r) does not return: once the response
\* has started, a failed copy of its body (the client has gone, or the backend
\* breaks off) makes httputil.ReverseProxy panic with http.ErrAbortHandler;
\* handleRequest defers nothing and recovers nothing, so the goroutine
\* unwinds to the server without reaching line 239
ProxyAbort(h) ==
  /\ req[h].pc = "proxy"
  /\ req' = [req EXCEPT ![h] = IdleReq]
  /\ UNCHANGED logVars
  /\ UNCHANGED pfVars
  /\ UNCHANGED << config, nb, down, now, nreq, logFile >>
  /\ UNCHANGED lbVars
  /\ UNCHANGED rlVars

\* the LogEntry the handler hands to RequestLogger.Log
Entry(h) ==
  [ip |-> req[h].ip, key |-> req[h].key, status |-> req[h].status,
   backend |-> req[h].backend, error |-> req[h].error]

\* a line of the file that is not the JSON of one entry
Garbled == [ip |-> "", key |-> "", status |-> 0, backend |-> None,
            error |-> "garbled"]

\* the line that a newline ends: the JSON of e when what precedes the
\* newline is all of e and nothing else
Line(part, e) == IF part = << e >> THEN e ELSE Garbled

\* RequestLogger.Log with the write done in one step, then the handler
\* returns
Log(h) ==
  /\ req[h].pc = "log"
  /\ CanLock(logMu)
  /\ logAcq' = Append(logAcq, Entry(h))
  /\ logFile' = Append(logFile, Line(Append(logPart, Entry(h)), Entry(h)))
  /\ logPart' = << >>
  /\ req' = [req EXCEPT ![h] = IdleReq]
  /\ UNCHANGED pfVars
  /\ UNCHANGED << config, nb, down, now, nreq, logMu >>
  /\ UNCHANGED lbVars
  /\ UNCHANGED rlVars

\* RequestLogger.Log: rl.mu.Lock()
LogLock(h) ==
  /\ req[h].pc = "log"
  /\ CanLock(logMu)
  /\ logMu' = h
  /\ logAcq' = Append(logAcq, Entry(h))
  /\ req' = [req EXCEPT ![h].pc = "logLocked"]
  /\ UNCHANGED pfVars
  /\ UNCHANGED << config, nb, down, now, nreq, logFile, logPart >>
  /\ UNCHANGED lbVars
  /\ UNCHANGED rlVars

\* rl.file.WriteString: a write that the system cuts short has put the
\* first bytes of the record at the end of the file
LogHead(h) ==
  /\ req[h].pc = "logLocked"
  /\ logPart' = Append(logPart, Entry(h))
  /\ req' = [req EXCEPT ![h].pc = "logWriting"]
  /\ UNCHANGED pfVars
  /\ UNCHANGED << config, nb, down, now, nreq, logFile, logMu, logAcq >>
  /\ UNCHANGED lbVars
  /\ UNCHANGED rlVars

\* rl.file.WriteString: the rest of the record and its newline are written;
\* the deferred rl.mu.Unlock() runs and the handler returns
LogTail(h) ==
  /\ req[h].pc = "logWriting"
  /\ logFile' = Append(logFile, Line(logPart, Entry(h)))
  /\ logPart' = << >>
  /\ logMu' = Unlock(logMu, h)
  /\ req' = [req EXCEPT ![h] = IdleReq]
  /\ UNCHANGED pfVars
  /\ UNCHANGED << config, nb, down, now, nreq, logAcq >>
  /\ UNCHANGED lbVars
  /\ UNCHANGED rlVars

\* ---- health checker ----

\* outcomes of client.Get(healthURL): an error, or a response status
ProbeOutcomes == { [err |-> TRUE, code |-> 0], [err |-> FALSE, code |-> 200],
                   [err |-> FALSE, code |-> 204], [err |-> FALSE, code |-> 503] }

\* faulty variant: the status of the response is not looked at
ProbeFailedErrOnly(o) == o.err

ProbeFailed(o) == o.err \/ o.code # StatusOK

\* a goroutine in client.Get, and one that has ended
IoProbe == [st |-> "io", was |-> FALSE, o |-> NoOutcome]
DoneProbe == [st |-> "done", was |-> FALSE, o |-> NoOutcome]

\* the positions of f at which a goroutine is in stage st
InStage(f, st) == {k \in 1 .. Len(f) : f[k].st = st}

\* f without the ended goroutines that no running one precedes, and with
\* one mark for the ended goroutines between two running ones
RECURSIVE Trim(_)
Trim(f) ==
  IF f = << >> THEN f
  ELSE IF f[1].st = "done" THEN Trim(Tail(f))
  ELSE IF Len(f) >= 2 /\ f[2].st = "done"
    THEN << f[1], f[2] >> \o Trim(<< f[2] >> \o Tail(Tail(f)))
  ELSE << f[1] >> \o Trim(Tail(f))

\* f after the goroutine at position k has ended
Ended(f, k) == Trim([f EXCEPT ![k] = DoneProbe])

\* no goroutine started after the one at position k has ended yet
IsNewest(f, k) == \A j \in (k + 1) .. Len(f) : f[j].st # "done"

\* faulty variant: checkBackendHealth is called without "go", one backend
\* after the other
StartedInTurn(b) == \A a \in Backends : a < b => probes[a] = 0

\* go g.checkBackendHealth(backend): from the tick on the probe of b runs in
\* a goroutine of its own
Started(b) == TRUE

\* one tick of healthCheckLoop: copy the backends under lb.mu, start a probe
\* each, while no backend has max probes running
StartProbes(max) ==
  /\ CanLock(lbMu)
  /\ \A b \in Backends : probes[b] < max
  /\ probes' = [b \in Backends |-> probes[b] + 1]
  /\ flight' = [b \in Backends |-> Append(flight[b], IoProbe)]
  /\ UNCHANGED newest
  /\ UNCHANGED logVars
  /\ UNCHANGED << config, nb, down, now, nreq, logFile, req, alive, current, lbMu, picks,
                  flipped, notes >>
  /\ UNCHANGED hcVars
  /\ UNCHANGED rlVars

HealthTick == StartProbes(MaxInflight)

\* faulty variant: every probe reports the state it leaves
NoticesAlways(was, v) == IF v THEN << "healthy" >> ELSE << "unhealthy" >>

\* the lines log.Printf writes in checkBackendHealth: wasAlive against the
\* value assigned
Notices(was, v) ==
  IF ~v /\ was THEN << "unhealthy" >>
  ELSE IF v /\ ~was THEN << "healthy" >>
  ELSE << >>

\* the record of the lines written about a backend, after more lines
Noted(n, lines) ==
  IF lines = << >> THEN n
  ELSE [last |-> lines[Len(lines)], odd |-> (n.odd # (Len(lines) % 2 = 1))]

\* the number of backends whose Alive field is true in a
LiveCount(a) == Cardinality({x \in Backends : a[x]})

\* backend.Alive = v with its log.Printf when wasAlive was read as was, and
\* what the histories keep of a change

SetAliveWas(b, was, v) ==
  /\ alive' = [alive EXCEPT ![b] = v]
  /\ notes' = [notes EXCEPT ![b] = Noted(@, Notices(was, v))]
  /\ IF v # alive[b]
       THEN /\ picks' = << >>
            /\ flipped' = TRUE
            /\ req' = [h \in Handlers |->
                        IF req[h].pc = "nextScan"
                          THEN [req[h] EXCEPT !.dirty = TRUE]
                          ELSE IF req[h].pc = "healthScan"
                            THEN [req[h] EXCEPT !.counts =
                                    @ \cup {LiveCount([alive EXCEPT ![b] = v])}]
                            ELSE req[h]]
       ELSE UNCHANGED << picks, flipped, req >>

\* wasAlive := backend.Alive and the assignment in one step
SetAlive(b, v) == SetAliveWas(b, alive[b], v)

\* checkBackendHealth: client.Get has returned o, and the critical section
\* under backend.mu is run in one step
CheckBackendHealth(b, o) ==
  /\ probes[b] > 0
  /\ Started(b)
  /\ CanLock(backendMu[b])
  /\ probes' = [probes EXCEPT ![b] = @ - 1]
  /\ SetAlive(b, ~ProbeFailed(o))
  /\ \E k \in InStage(flight[b], "io") :
       /\ flight' = [flight EXCEPT ![b] = Ended(@, k)]
       /\ newest' = [newest EXCEPT ![b] =
                       IF IsNewest(flight[b], k) THEN ~ProbeFailed(o) ELSE @]
  /\ UNCHANGED logVars
  /\ UNCHANGED << config, nb, down, now, nreq, logFile, current, lbMu >>
  /\ UNCHANGED hcVars
  /\ UNCHANGED rlVars

\* checkBackendHealth step by step: client.Get has returned o;
\* backend.mu.Lock(); wasAlive := backend.Alive
ProbeLock(b, o) ==
  /\ probes[b] > 0
  /\ Started(b)
  /\ CanLock(backendMu[b])
  /\ backendMu' = [backendMu EXCEPT ![b] = Prober]
  /\ probeRes' = [probeRes EXCEPT ![b] = o]
  /\ \E k \in InStage(flight[b], "io") :
       flight' = [flight EXCEPT ![b][k] =
                    [st |-> "locked", was |-> alive[b], o |-> o]]
  /\ UNCHANGED newest
  /\ UNCHANGED logVars
  /\ UNCHANGED << config, nb, down, now, nreq, logFile, req, alive, current, lbMu,
                  probes, picks, flipped, notes >>
  /\ UNCHANGED rlVars

\* checkBackendHealth step by step: the assignment to backend.Alive, then
\* backend.mu.Unlock() and the end of the goroutine
ProbeWrite(b) ==
  /\ \E k \in InStage(flight[b], "locked") :
       LET p == flight[b][k]
       IN /\ SetAliveWas(b, p.was, ~ProbeFailed(p.o))
          /\ flight' = [flight EXCEPT ![b] = Ended(@, k)]
          /\ newest' = [newest EXCEPT ![b] =
                          IF IsNewest(flight[b], k) THEN ~ProbeFailed(p.o) ELSE @]
  /\ backendMu' = [backendMu EXCEPT ![b] = Unlock(@, Prober)]
  /\ probes' = [probes EXCEPT ![b] = @ - 1]
  /\ UNCHANGED logVars
  /\ UNCHANGED << config, nb, down, now, nreq, logFile, current, lbMu, probeRes >>
  /\ UNCHANGED rlVars

\* ---- the clock ----

Tick(d) ==
  /\ now + d <= MaxTime
  /\ now' = now + d
  /\ UNCHANGED logVars
  /\ UNCHANGED pfVars
  /\ UNCHANGED << config, nb, down, nreq, logFile, req >>
  /\ UNCHANGED lbVars
  /\ UNCHANGED rlVars

\* the steps of a request after it has been received
\* ---- handleHealth ----

Methods == {"GET", "POST"}

StatusMethodNotAllowed == 405

\* handleRequest with r.URL.Path == "/health": handleHealth is called and
\* handleRequest returns. A method other than GET is answered 405 at once.
\* key and ip are the request's X-API-Key header and peer address, which
\* handleHealth never reads.
ReceiveHealth(h, remoteAddr, apiKey, method) ==
  /\ nreq < MaxRequests
  /\ \E g \in Handlers : req[g].pc = "idle"
  /\ h = NextHandler
  /\ nreq' = nreq + 1
  /\ req' = [req EXCEPT ![h] =
        IF method # "GET"
          THEN [IdleReq EXCEPT !.pc = "answered",
                               !.ip = ClientIP(remoteAddr), !.key = apiKey,
                               !.status = StatusMethodNotAllowed]
          ELSE [IdleReq EXCEPT !.pc = "health",
                               !.ip = ClientIP(remoteAddr), !.key = apiKey]]
  /\ UNCHANGED logVars
  /\ UNCHANGED pfVars
  /\ UNCHANGED << config, nb, down, now, logFile >>
  /\ UNCHANGED lbVars
  /\ UNCHANGED rlVars

\* handleHealth: g.lb.mu.Lock(); healthy := 0. counts collects the number
\* of live backends at every moment of the scan.
HealthLock(h) ==
  /\ req[h].pc = "health"
  /\ CanLock(lbMu)
  /\ lbMu' = h
  /\ req' = [req EXCEPT ![h].pc = "healthScan", ![h].i = 0,
                        ![h].healthy = 0,
                        ![h].counts = {LiveCount(alive)}]
  /\ UNCHANGED logVars
  /\ UNCHANGED pfVars
  /\ UNCHANGED << config, nb, down, now, nreq, logFile >>
  /\ UNCHANGED << alive, current, probes, backendMu, probeRes, notes, picks, flipped >>
  /\ UNCHANGED rlVars

\* one iteration of "for _, b := range g.lb.backends": b.Alive is read
\* without backend.mu. After the last one: g.lb.mu.Unlock() and the
\* response, status 200 with healthy_backends and total_backends.
HealthStep(h) ==
  /\ req[h].pc = "healthScan"
  /\ IF req[h].i < NumBackends
       THEN /\ req' = [req EXCEPT ![h].i = @ + 1,
                          ![h].healthy = IF alive[req[h].i] THEN @ + 1 ELSE @]
            /\ UNCHANGED lbMu
       ELSE /\ req' = [req EXCEPT ![h].pc = "answered", ![h].i = 0,
                                   ![h].status = StatusOK]
            /\ lbMu' = Unlock(lbMu, h)
  /\ UNCHANGED logVars
  /\ UNCHANGED pfVars
  /\ UNCHANGED << config, nb, down, now, nreq, logFile >>
  /\ UNCHANGED << alive, current, probes, backendMu, probeRes, notes, picks, flipped >>
  /\ UNCHANGED rlVars

\* handleHealth returns: no log entry is written for /health
HealthReturn(h) ==
  /\ req[h].pc = "answered"
  /\ req' = [req EXCEPT ![h] = IdleReq]
  /\ UNCHANGED logVars
  /\ UNCHANGED pfVars
  /\ UNCHANGED << config, nb, down, now, nreq, logFile >>
  /\ UNCHANGED lbVars
  /\ UNCHANGED rlVars

\* total_backends: len(g.lb.backends)
TotalBackends == NumBackends

HandleHealth ==
  \/ \E h \in Handlers : HealthLock(h)
  \/ \E h \in Handlers : HealthStep(h)
  \/ \E h \in Handlers : HealthReturn(h)

Handle ==
  \/ \E h \in Handlers : AllowLock(h)
  \/ \E h \in Handlers : AllowBody(h)
  \/ \E h \in Handlers : NextLock(h)
  \/ \E h \in Handlers : NextStep(h)
  \/ \E h \in Handlers : Log(h)

Next ==
  \/ \E h \in Handlers, a \in RemoteAddrs, k \in KeyHeaders : Receive(h, a, k)
  \/ \E h \in Handlers, a \in RemoteAddrs, k \in KeyHeaders, m \in Methods :
       ReceiveHealth(h, a, k, m)
  \/ HandleHealth
  \/ Handle
  \/ \E h \in Handlers : ProxyInterim(h)
  \/ \E h \in Handlers, s \in ProxyStatuses : Proxy(h, s)
  \/ \E h \in Handlers : ProxyFail(h)
  \/ \E h \in Handlers : ProxyAbort(h)
  \/ HealthTick
  \/ \E b \in Backends, o \in ProbeOutcomes : CheckBackendHealth(b, o)
  \/ \E d \in TickSteps : Tick(d)

Spec == Init /\ [][Next]_vars

\* The request pipeline from the connection to the log entry, for the
\* requests of one client address at one instant, started from each of the
\* liveness assignments the health checker can have left.
InitGW ==
  \E live \in SUBSET Backends :
    InitAt([RateLimitPerIP |-> 2, RateLimitPerKey |-> 1], live)

NextGW ==
  \/ \E h \in Handlers, k \in KeyHeaders :
        Receive(h, <<"10.0.0.1", "5000">>, k) /\ nreq < GWRequests
  \/ Handle
  \/ \E h \in Handlers, s \in ProxyStatuses : Proxy(h, s)
  \/ \E h \in Handlers : ProxyFail(h)
  \/ \E h \in Handlers : ProxyAbort(h)

SpecGW == InitGW /\ [][NextGW]_vars

\* The load balancer and the health checker under concurrent callers of
\* LoadBalancer.Next, with the default limits of main().
InitLB == InitWith([RateLimitPerIP |-> DefaultRateLimit,
                    RateLimitPerKey |-> DefaultKeyRateLimit])

\* g.lb.Next() called by a request that has passed the earlier stages
CallNext(h) ==
  /\ nreq < MaxRequests
  /\ \E g \in Handlers : req[g].pc = "idle"
  /\ h = NextHandler
  /\ nreq' = nreq + 1
  /\ req' = [req EXCEPT ![h] = [IdleReq EXCEPT !.pc = "next"]]
  /\ UNCHANGED logVars
  /\ UNCHANGED pfVars
  /\ UNCHANGED << config, nb, down, now, logFile >>
  /\ UNCHANGED lbVars
  /\ UNCHANGED rlVars

\* a caller that has its answer from the component under study goes away:
\* the later stages of handleRequest share no state with that component
Return(h, stages) ==
  /\ req[h].pc \in stages
  /\ req' = [req EXCEPT ![h] = IdleReq]
  /\ UNCHANGED logVars
  /\ UNCHANGED pfVars
  /\ UNCHANGED << config, nb, down, now, nreq, logFile >>
  /\ UNCHANGED lbVars
  /\ UNCHANGED rlVars

NextLB ==
  \/ \E h \in Handlers : CallNext(h)
  \/ \E h \in Handlers : NextLock(h)
  \/ \E h \in Handlers : NextStep(h)
  \/ \E h \in Handlers : Return(h, {"proxy", "log"})
  \/ HealthTick
  \/ \E b \in Backends, o \in ProbeOutcomes : CheckBackendHealth(b, o)

SpecLB == InitLB /\ [][NextLB]_vars

\* The health checker with the critical section of checkBackendHealth taken
\* step by step, beside callers of LoadBalancer.Next.
NextHC ==
  \/ \E h \in Handlers : CallNext(h) /\ nreq < HCRequests
  \/ \E h \in Handlers : NextLock(h)
  \/ \E h \in Handlers : NextStep(h)
  \/ \E h \in Handlers : Return(h, {"proxy", "log"})
  \/ HealthTick
  \/ \E b \in Backends, o \in ProbeOutcomes : ProbeLock(b, o)
  \/ \E b \in Backends : ProbeWrite(b)

SpecHC == InitLB /\ [][NextHC]_vars

\* ---- backends that fail and recover ----

\* the /health endpoint of backend b stops answering 200
BackendFails(b) ==
  /\ b \notin down
  /\ down' = down \cup {b}
  /\ UNCHANGED logVars
  /\ UNCHANGED pfVars
  /\ UNCHANGED << config, nb, now, nreq, logFile, req >>
  /\ UNCHANGED lbVars
  /\ UNCHANGED rlVars

\* the /health endpoint of backend b answers 200 again
BackendRecovers(b) ==
  /\ b \in down
  /\ down' = down \ {b}
  /\ UNCHANGED logVars
  /\ UNCHANGED pfVars
  /\ UNCHANGED << config, nb, now, nreq, logFile, req >>
  /\ UNCHANGED lbVars
  /\ UNCHANGED rlVars

\* what client.Get(healthURL) can return for backend b now
Answers(b) ==
  IF b \in down
    THEN {[err |-> TRUE, code |-> 0], [err |-> FALSE, code |-> 503]}
    ELSE {[err |-> FALSE, code |-> StatusOK]}

\* checkBackendHealth against the backend as it is now
ProbeBackend(b) == \E o \in Answers(b) : CheckBackendHealth(b, o)

\* the steps of the callers of LoadBalancer.Next
Callers ==
  \/ \E h \in Handlers : NextLock(h)
  \/ \E h \in Handlers : NextStep(h)
  \/ \E h \in Handlers : Return(h, {"proxy", "log"})

\* The health checker against backends that fail and recover, beside callers
\* of LoadBalancer.Next.  The ticker of healthCheckLoop keeps firing, every
\* probe comes back (client.Timeout), and no goroutine that can run is held
\* back for ever.
NextHL ==
  \/ \E h \in Handlers : CallNext(h) /\ nreq < HLRequests
  \/ Callers
  \/ HealthTick
  \/ \E b \in Backends : ProbeBackend(b)
  \/ \E b \in Backends : BackendFails(b)
  \/ \E b \in Backends : BackendRecovers(b)

FairHL ==
  /\ WF_vars(HealthTick)
  /\ \A b \in Backends : WF_vars(ProbeBackend(b))
  /\ WF_vars(Callers)

SpecHL == InitLB /\ [][NextHL]_vars /\ FairHL

\* The forward to the chosen backend and the log entry, beside the health
\* checker.  The ticker keeps firing, every probe comes back, and a handler
\* that can run does run; nothing in handleRequest, in NewGateway or in the
\* http.Server of Start bounds the time backend.Proxy.ServeHTTP takes, so
\* no fairness is stated for the end of a forward.
NextFW ==
  \/ \E h \in Handlers : CallNext(h) /\ nreq < FWRequests
  \/ \E h \in Handlers : NextLock(h)
  \/ \E h \in Handlers : NextStep(h)
  \/ \E h \in Handlers, s \in ProxyStatuses : Proxy(h, s)
  \/ \E h \in Handlers : ProxyFail(h)
  \/ \E h \in Handlers : ProxyAbort(h)
  \/ \E h \in Handlers : Log(h)
  \/ HealthTick
  \/ \E b \in Backends, o \in ProbeOutcomes : CheckBackendHealth(b, o)

FairFW ==
  /\ WF_vars(HealthTick)
  /\ \A b \in Backends : WF_vars(\E o \in ProbeOutcomes : CheckBackendHealth(b, o))
  /\ \A h \in Handlers : WF_vars(NextLock(h) \/ NextStep(h) \/ Log(h))

SpecFW == InitLB /\ [][NextFW]_vars /\ FairFW

\* The rate limiter under small limits and a moving clock: concurrent requests
\* of one client address, with and without a whitelisted key.
InitRL == InitWith([RateLimitPerIP |-> 2, RateLimitPerKey |-> 1])

NextRL ==
  \/ \E h \in Handlers, k \in {"", "key-admin"} :
        Receive(h, <<"10.0.0.1", "5000">>, k)
  \/ \E h \in Handlers : AllowLock(h)
  \/ \E h \in Handlers : AllowBody(h)
  \/ \E h \in Handlers : Return(h, {"next", "log"})
  \/ \E d \in TickSteps : Tick(d)

SpecRL == InitRL /\ [][NextRL]_vars

\* The rate limiter under concurrent requests of different client addresses,
\* with and without a whitelisted key, at one instant.
NextID ==
  \/ \E h \in Handlers, a \in RemoteAddrs, k \in {"", "key-admin"} :
        Receive(h, a, k)
  \/ \E h \in Handlers : AllowLock(h)
  \/ \E h \in Handlers : AllowBody(h)
  \/ \E h \in Handlers : Return(h, {"next", "log"})

SpecID == InitRL /\ [][NextID]_vars

\* The rate limiter under the requests of two IPv6 peers and an IPv4 peer,
\* at one instant.
NextV6 ==
  \/ \E h \in Handlers, a \in RemoteAddrs6 \cup {<<"10.0.0.1", "5000">>} :
        Receive(h, a, "") /\ nreq < V6Requests
  \/ \E h \in Handlers : AllowLock(h)
  \/ \E h \in Handlers : AllowBody(h)
  \/ \E h \in Handlers : Return(h, {"next", "log"})

SpecV6 == InitRL /\ [][NextV6]_vars

\* The whole of handleRequest as SpecGW has it, the forward that breaks off
\* left out, with backends that send an interim response before the final
\* one.
NextRW ==
  \/ \E h \in Handlers, k \in {"", "bogus"} :
        Receive(h, <<"10.0.0.1", "5000">>, k) /\ nreq < RWRequests
  \/ Handle
  \/ \E h \in Handlers : ProxyInterim(h)
  \/ \E h \in Handlers, s \in ProxyStatuses : Proxy(h, s)
  \/ \E h \in Handlers : ProxyFail(h)

SpecRW == InitGW /\ [][NextRW]_vars

\* The health checker with ticks that find the probes of earlier ticks
\* still running, beside a caller of LoadBalancer.Next. The probes of
\* backend 0 fail or succeed and are followed step by step; the other
\* backends answer 200.
NextOV ==
  \/ \E h \in Handlers : CallNext(h) /\ nreq < OVRequests
  \/ \E h \in Handlers : NextLock(h)
  \/ \E h \in Handlers : NextStep(h)
  \/ \E h \in Handlers : Return(h, {"proxy", "log"})
  \/ StartProbes(MaxOverlap)
  \/ \E o \in {[err |-> TRUE, code |-> 0], [err |-> FALSE, code |-> StatusOK]} :
        ProbeLock(0, o)
  \/ ProbeWrite(0)
  \/ \E b \in Backends \ {0} :
        CheckBackendHealth(b, [err |-> FALSE, code |-> StatusOK])

SpecOV == InitLB /\ [][NextOV]_vars

\* LoadBalancer.Next in gateways of every number of backends, none
\* included, under every assignment of their liveness flags.
InitNB ==
  \E n \in 0 .. NumBackends : \E live \in SUBSET (0 .. (n - 1)) :
    InitOf([RateLimitPerIP |-> DefaultRateLimit,
            RateLimitPerKey |-> DefaultKeyRateLimit], live, n)

NextNB ==
  \/ \E h \in Handlers : CallNext(h) /\ nreq < NBRequests
  \/ \E h \in Handlers : NextLock(h)
  \/ \E h \in Handlers : NextStep(h)
  \/ \E h \in Handlers : Return(h, {"proxy", "log"})

SpecNB == InitNB /\ [][NextNB]_vars

\* The rate limiter and LoadBalancer.Next for the requests of one client,
\* with and without key, as time passes, started from each of the liveness
\* assignments the health checker can have left.
NextCH ==
  \/ \E h \in Handlers, k \in {"", "key-admin"} :
        Receive(h, <<"10.0.0.1", "5000">>, k) /\ nreq < CHRequests
  \/ \E h \in Handlers : AllowLock(h)
  \/ \E h \in Handlers : AllowBody(h)
  \/ \E h \in Handlers : NextLock(h)
  \/ \E h \in Handlers : NextStep(h)
  \/ \E h \in Handlers : Return(h, {"proxy", "log"})
  \/ \E d \in TickSteps : Tick(d)

SpecCH == InitGW /\ [][NextCH]_vars

\* Every user of the four kinds of lock together: proxied requests with the
\* write of their log record in steps, /health calls, the ticks of the
\* health-check loop and the probes, those of backend 0 step by step.
NextDL ==
  \/ \E h \in Handlers :
        Receive(h, <<"10.0.0.1", "5000">>, "") /\ nreq < DLRequests
  \/ \E h \in Handlers :
        ReceiveHealth(h, <<"10.0.0.1", "5000">>, "", "GET") /\ nreq < DLRequests
  \/ \E h \in Handlers : AllowLock(h)
  \/ \E h \in Handlers : AllowBody(h)
  \/ \E h \in Handlers : NextLock(h)
  \/ \E h \in Handlers : NextStep(h)
  \/ \E h \in Handlers : Proxy(h, StatusOK)
  \/ \E h \in Handlers : LogLock(h)
  \/ \E h \in Handlers : LogHead(h)
  \/ \E h \in Handlers : LogTail(h)
  \/ HandleHealth
  \/ HealthTick
  \/ \E o \in {[err |-> TRUE, code |-> 0], [err |-> FALSE, code |-> StatusOK]} :
        ProbeLock(0, o)
  \/ ProbeWrite(0)
  \/ \E b \in Backends \ {0} :
        CheckBackendHealth(b, [err |-> FALSE, code |-> StatusOK])

SpecDL == InitRL /\ [][NextDL]_vars

\* Concurrent requests that are refused for their key and logged, the
\* write of a record taking two steps.
NextLG ==
  \/ \E h \in Handlers, a \in RemoteAddrs :
        Receive(h, a, "bogus") /\ nreq < LGRequests
  \/ \E h \in Handlers : LogLock(h)
  \/ \E h \in Handlers : LogHead(h)
  \/ \E h \in Handlers : LogTail(h)

SpecLG == InitRL /\ [][NextLG]_vars

\* GET /health beside proxied requests of the same client, which use its
\* IP bucket up, and beside the health checker. One request per minute and
\* IP: the first proxied request takes the only token.
InitHE == InitWith([RateLimitPerIP |-> 1, RateLimitPerKey |-> 1])

NextHE ==
  \/ \E h \in Handlers :
        Receive(h, <<"10.0.0.1", "5000">>, "") /\ nreq < HERequests
  \/ \E h \in Handlers, k \in {"", "bogus"}, m \in Methods :
        ReceiveHealth(h, <<"10.0.0.1", "5000">>, k, m) /\ nreq < HERequests
  \/ \E h \in Handlers : AllowLock(h)
  \/ \E h \in Handlers : AllowBody(h)
  \/ \E h \in Handlers : Return(h, {"next", "log"})
  \/ HandleHealth
  \/ HealthTick
  \/ \E b \in Backends, o \in ProbeOutcomes : CheckBackendHealth(b, o)

SpecHE == InitHE /\ [][NextHE]_vars

\* ---------------------------------------------------------------------
\* Properties of LoadBalancer.Next (checked under SpecLB)
\* ---------------------------------------------------------------------

Live == {b \in Backends : alive[b]}

\* the calls of the current window that ran entirely inside it
Quiet == {i \in 1 .. Len(picks) : ~picks[i].dirty}

\* how often backend b was returned by the calls a..b of the window
Times(x, a, b) == Cardinality({j \in a .. b : picks[j].ret = x})

\* over every run of consecutive undisturbed calls, each backend of S is
\* returned floor(M/|S|) or ceil(M/|S|) times
EvenlyShared(S) ==
  \A a \in Quiet, b \in Quiet :
    a <= b /\ (\A j \in a .. b : j \in Quiet) =>
      LET M == b - a + 1
          n == Cardinality(S)
      IN \A x \in S : /\ Times(x, a, b) >= M \div n
                      /\ Times(x, a, b) <= (M + n - 1) \div n

\* C1: while all liveness flags stay true, consecutive Next calls return the
\* backends in the cyclic configured order, starting with backend[0] when the
\* cursor starts at 0, and every backend is returned floor(M/K) or ceil(M/K)
\* times over any M consecutive calls.
Thm_C1_RoundRobinCycle ==
  Live = Backends =>
    /\ \A i \in Quiet : i + 1 \in Quiet =>
          picks[i + 1].ret = (picks[i].ret + 1) % NumBackends
    /\ ~flipped => \A i \in 1 .. Len(picks) : picks[i].ret = (i - 1) % NumBackends
    /\ EvenlyShared(Backends)

Wit_C1_RoundRobinCycle ==
  /\ Live = Backends
  /\ ~flipped
  /\ Len(picks) > NumBackends

\* C2: while exactly one of K >= 2 backends is dead, Next never returns it and
\* the other K-1 backends share any M consecutive calls evenly.
Thm_C2_SkipsDeadBackend ==
  NumBackends >= 2 /\ Cardinality(Live) = NumBackends - 1 =>
    /\ \A i \in 1 .. Len(picks) : picks[i].ret \notin Backends \ Live
    /\ \A i \in Quiet : picks[i].ret \in Live
    /\ EvenlyShared(Live)

Wit_C2_SkipsDeadBackend ==
  /\ Cardinality(Live) = NumBackends - 1
  /\ Len(picks) >= 3
  /\ Quiet = 1 .. Len(picks)
  /\ \E i \in 1 .. Len(picks) : /\ picks[i].start \notin Live
                                 /\ picks[i].ret # picks[i].start

\* C3: while every liveness flag is false every Next call returns nil, and a
\* call made while some flag is true (and no flag changes under it) returns
\* a backend.
Thm_C3_NilIffAllDead ==
  /\ Live = {} => \A i \in 1 .. Len(picks) : picks[i].ret = None
  /\ \A i \in Quiet : picks[i].live => picks[i].ret \in Backends

Wit_C3_NilIffAllDead ==
  /\ Live = {}
  /\ Len(picks) >= 2
  /\ \A i \in 1 .. Len(picks) : picks[i].ret = None /\ ~picks[i].live

\* C4: concurrent Next calls are serialised by lb.mu: with all backends
\* alive each call returns the backend at the cursor value it read, the next
\* call reads the cursor one past it, at most one call is inside the critical
\* section, and after M calls from startup the cursor is M mod K.
Thm_C4_CursorAtomic ==
  /\ Cardinality({h \in Handlers : req[h].pc = "nextScan"}) <= 1
  /\ Live = Backends =>
       /\ \A i \in Quiet : picks[i].ret = picks[i].start
       /\ \A i \in Quiet : i + 1 \in Quiet =>
             picks[i + 1].start = (picks[i].start + 1) % NumBackends
       /\ ~flipped => current = Len(picks) % NumBackends

Wit_C4_CursorAtomic ==
  /\ Live = Backends
  /\ ~flipped
  /\ Len(picks) >= 2
  /\ \E h \in Handlers, g \in Handlers :
        req[h].pc = "nextScan" /\ req[g].pc = "next"

\* ---------------------------------------------------------------------
\* Properties of RateLimiter.Allow (checked under SpecRL)
\* ---------------------------------------------------------------------

LastCall == rlHist[Len(rlHist)]

\* the Allow calls made for one client IP, in order
IpCalls(ip) == LET OfIp(e) == e.ip = ip IN SelectSeq(rlHist, OfIp)

SeenIPs == {rlHist[i].ip : i \in 1 .. Len(rlHist)}

\* the bucket a call finds: the one in the map, or a full new one
Found(limits, id, limit, t) ==
  IF id \in DOMAIN limits
    THEN limits[id]
    ELSE [tokens |-> limit * TokenUnit, capacity |-> limit * TokenUnit,
          refillRate |-> limit, lastRefill |-> t]

\* min(capacity, tokens + elapsed * refillRate), in 1/60 tokens
Refilled(b, t) == Min(b.capacity, b.tokens + (t - b.lastRefill) * b.refillRate)

IpRefilled(e) ==
  Refilled(Found(rlPre.ip, e.ip, config.RateLimitPerIP, e.t), e.t)

KeyRefilled(e) ==
  Refilled(Found(rlPre.key, e.key, config.RateLimitPerKey, e.t), e.t)

\* C5: of N requests of one IP made at the instant its bucket is created,
\* the first min(N, L) pass the IP bucket (and Allow, when they carry no
\* key) and the rest are denied; a denied request is answered 429.
Thm_C5_BurstAllowsLimit ==
  /\ \A ip \in SeenIPs :
       LET s == IpCalls(ip)
       IN \A n \in 1 .. Len(s) :
            s[n].t = s[1].t =>
              /\ s[n].ipOk = (n <= config.RateLimitPerIP)
              /\ s[n].key = "" => s[n].ok = (n <= config.RateLimitPerIP)
  /\ rlHist # << >> =>
       LET e == LastCall
       IN /\ req[rlPre.by].pc = "log" =>
               ~e.ok /\ req[rlPre.by].status = StatusTooManyRequests
          /\ req[rlPre.by].pc = "next" => e.ok

Wit_C5_BurstAllowsLimit ==
  /\ Len(rlHist) > config.RateLimitPerIP
  /\ \A i \in 1 .. Len(rlHist) : rlHist[i].t = rlHist[1].t /\ rlHist[i].key = ""
  /\ ~LastCall.ok
  /\ req[rlPre.by].pc = "log"
  /\ req[rlPre.by].status = StatusTooManyRequests

\* the requests d+1..n of s are a burst that follows the denial s[d] after
\* a pause
BurstAfterDenial(s, d, n) ==
  /\ d < n
  /\ ~s[d].ipOk
  /\ s[d + 1].t > s[d].t
  /\ s[n].t = s[d + 1].t

BucketInRange(b) == 0 <= b.tokens /\ b.tokens <= b.capacity

\* what one allowIP / allowKey call must have done to its bucket
Charged(pre, post, t, ok) ==
  /\ post.lastRefill = t
  /\ post.tokens = IF ok THEN Refilled(pre, t) - TokenUnit ELSE Refilled(pre, t)

\* C7: every bucket keeps 0 <= tokens <= capacity; an allowed request takes
\* exactly one token from the refilled count, a denied one refills (tokens
\* and lastRefill) and takes nothing.
Thm_C7_BucketRange ==
  /\ \A ip \in DOMAIN ipLimits : BucketInRange(ipLimits[ip])
  /\ \A k \in DOMAIN keyLimits : BucketInRange(keyLimits[k])
  /\ rlHist # << >> =>
       LET e == LastCall
       IN /\ e.ip \in DOMAIN ipLimits
          /\ Charged(Found(rlPre.ip, e.ip, config.RateLimitPerIP, e.t),
                      ipLimits[e.ip], e.t, e.ipOk)
          /\ e.ipOk /\ e.key # "" =>
               /\ e.key \in DOMAIN keyLimits
               /\ Charged(Found(rlPre.key, e.key, config.RateLimitPerKey, e.t),
                           keyLimits[e.key], e.t, e.ok)

Wit_C7_BucketRange ==
  /\ rlHist # << >>
  /\ ~LastCall.ipOk
  /\ LastCall.ip \in DOMAIN rlPre.ip
  /\ ipLimits[LastCall.ip].tokens > rlPre.ip[LastCall.ip].tokens
  /\ ipLimits[LastCall.ip].lastRefill > rlPre.ip[LastCall.ip].lastRefill

Thm_C9_IPDenialSparesKey ==
  rlHist # << >> /\ ~LastCall.ipOk => keyLimits = rlPre.key

Wit_C9_IPDenialSparesKey ==
  /\ rlHist # << >>
  /\ ~LastCall.ipOk
  /\ LastCall.key # ""
  /\ LastCall.key \in DOMAIN keyLimits
  /\ keyLimits[LastCall.key].lastRefill < LastCall.t

\* C10 as claimed: a request with a whitelisted key is limited by its key
\* bucket alone: it is allowed whenever the key bucket holds a token.
Cex_C10_KeyLimitOnly ==
  rlHist # << >> /\ LastCall.key \in APIKeys /\ KeyRefilled(LastCall) >= TokenUnit
    => LastCall.ok

\* ---------------------------------------------------------------------
\* Concurrent callers of RateLimiter.Allow (checked under SpecRL)
\* ---------------------------------------------------------------------

\* the Allow calls that reached the bucket of one key, in order
KeyCalls(k) ==
  LET OfKey(e) == e.key = k /\ e.ipOk IN SelectSeq(rlHist, OfKey)

ChargedKeys == {k \in APIKeys : KeyCalls(k) # << >>}

\* only the first call of a sequence of calls made the bucket
FirstMakes(s, new(_)) == \A i \in 1 .. Len(s) : new(s[i]) <=> (i = 1)

\* C11: however the first requests of an identity interleave, exactly one
\* bucket is made for it, by its first Allow call; every later call finds
\* that bucket, and a bucket once in ipLimits or keyLimits stays there with
\* its capacity and rate and is touched only by calls for its own identity.
Thm_C11_OneBucketPerIdentity ==
  /\ DOMAIN ipLimits = SeenIPs
  /\ DOMAIN keyLimits = ChargedKeys
  /\ \A ip \in SeenIPs : LET new(e) == e.ipNew IN FirstMakes(IpCalls(ip), new)
  /\ \A k \in ChargedKeys : LET new(e) == e.keyNew IN FirstMakes(KeyCalls(k), new)
  /\ rlHist # << >> =>
       /\ \A ip \in DOMAIN rlPre.ip :
            /\ ip \in DOMAIN ipLimits
            /\ ipLimits[ip].capacity = rlPre.ip[ip].capacity
            /\ ipLimits[ip].refillRate = rlPre.ip[ip].refillRate
            /\ ip # LastCall.ip => ipLimits[ip] = rlPre.ip[ip]
       /\ \A k \in DOMAIN rlPre.key :
            /\ k \in DOMAIN keyLimits
            /\ keyLimits[k].capacity = rlPre.key[k].capacity
            /\ keyLimits[k].refillRate = rlPre.key[k].refillRate
            /\ k # LastCall.key => keyLimits[k] = rlPre.key[k]
  /\ \A h \in Handlers : req[h].pc = "allowLocked" =>
       /\ req[h].seen.ip = (req[h].ip \in DOMAIN ipLimits)
       /\ req[h].seen.key = (req[h].key \in DOMAIN keyLimits)

\* two requests of one fresh identity are in flight together: one has made
\* the bucket and left Allow, the other holds the lock and has found it
Wit_C11_OneBucketPerIdentity ==
  \E g \in Handlers, h \in Handlers :
    /\ g # h
    /\ Len(rlHist) = 1
    /\ rlHist[1].ipNew
    /\ rlPre.by = g
    /\ req[g].pc \in {"next", "log"}
    /\ req[h].pc = "allowLocked"
    /\ req[h].ip = req[g].ip
    /\ req[h].seen.ip

\* the calls a..b of s that the IP bucket allowed
IpAllowed(s, a, b) == Cardinality({j \in a .. b : s[j].ipOk})

\* the IP bucket's tokens after its refill in call e, before the charge
IpBefore(e) == e.ipLeft + (IF e.ipOk THEN TokenUnit ELSE 0)

\* C12: Allow runs as one step per caller: the caller in the body holds
\* rl.mu alone; of any run of calls for one IP made with no time passing
\* between them at most floor(tokens) are allowed, tokens being what the
\* first of them found after its refill; and from one call to the next the
\* bucket holds exactly min(capacity, previous tokens + elapsed * rate)
\* before the charge, so that no refill is lost and none is applied twice.
Thm_C12_AllowAtomic ==
  /\ \A h \in Handlers : req[h].pc = "allowLocked" => rlMu = h
  /\ \A ip \in SeenIPs :
       LET s == IpCalls(ip)
       IN /\ \A a \in 1 .. Len(s), b \in 1 .. Len(s) :
               a <= b /\ s[a].t = s[b].t =>
                 IpAllowed(s, a, b) <= IpBefore(s[a]) \div TokenUnit
          /\ \A j \in 1 .. Len(s) - 1 :
               IpBefore(s[j + 1]) =
                 Min(config.RateLimitPerIP * TokenUnit,
                     s[j].ipLeft + (s[j + 1].t - s[j].t) * config.RateLimitPerIP)

\* a third call at one instant was denied while another request of the same
\* IP is inside Allow or waiting for rl.mu
Wit_C12_AllowAtomic ==
  /\ Len(rlHist) >= 3
  /\ \A i \in 1 .. Len(rlHist) : rlHist[i].t = LastCall.t /\ rlHist[i].ip = LastCall.ip
  /\ ~LastCall.ipOk
  /\ \E h \in Handlers :
       /\ h # rlPre.by
       /\ req[h].pc \in {"allow", "allowLocked"}
       /\ req[h].ip = LastCall.ip

\* ---------------------------------------------------------------------
\* Callers of Allow with different identities (checked under SpecID)
\* ---------------------------------------------------------------------

\* two requests that share neither the client IP nor an API key
Unrelated(h, g) ==
  /\ req[h].ip # req[g].ip
  /\ req[h].key = "" \/ req[h].key # req[g].key

\* C13 as claimed: a request about to enter Allow is not held up by a
\* request of an unrelated identity that is inside Allow: it can take the
\* lock it needs.
Cex_C13_NoCrossIdentityBlocking ==
  \A h \in Handlers, g \in Handlers :
    /\ req[h].pc = "allow"
    /\ req[g].pc = "allowLocked"
    /\ Unrelated(h, g)
    => ENABLED AllowLock(h)

\* ---------------------------------------------------------------------
\* The liveness flags and the health checker (checked under SpecHC)
\* ---------------------------------------------------------------------

\* the next step of handler h is the read of Backend.Alive of backend b in
\* the scan loop of LoadBalancer.Next
ReadsAlive(h, b) ==
  /\ req[h].pc = "nextScan"
  /\ ~ScanDone(req[h].i)
  /\ ScanIdx(req[h].start, req[h].i) = b

\* a checkBackendHealth goroutine is inside its critical section on b: its
\* next step is the write of Backend.Alive
WritesAlive(b) == backendMu[b] = Prober

\* C14 as claimed: the reads and the writes of a liveness flag exclude each
\* other: Next is never about to read Backend.Alive of a backend while
\* checkBackendHealth is in the critical section in which it writes it.
Cex_C14_AliveOneLock ==
  \A h \in Handlers, b \in Backends : ~(ReadsAlive(h, b) /\ WritesAlive(b))

\* the probe counts as a success as the claim has it: no error, any 2xx
Claimed2xx(o) == ~o.err /\ o.code \in 200 .. 299

\* the probe counts as a success: no error and status 200
Probe200(o) == ~o.err /\ o.code = StatusOK

\* the backends whose last probe has been applied to the flag
Probed == {b \in Backends : backendMu[b] = NoHolder /\ probeRes[b] # NoOutcome}

InFlight == {h \in Handlers : req[h].pc # "idle"}

LogIdx == 1 .. Len(logFile)

\* the log entry handler h would write now
EntryOf(h) == Entry(h)

\* C15 as claimed: every request that has ended has exactly one entry in the
\* log: the log holds as many entries as requests have come and gone.
Cex_C15_OneLogEntry ==
  Len(logFile) = nreq - Cardinality(InFlight)

\* the header is present and names no whitelisted key
BadKey(k) == k # "" /\ k \notin APIKeys

\* C16: a request is answered 401 exactly if its X-API-Key header is
\* non-empty and not in the whitelist; a request without the header or
\* with a whitelisted key goes on to the rate limiter.
Thm_C16_AuthDecision ==
  /\ \A i \in LogIdx :
       logFile[i].status = StatusUnauthorized <=> BadKey(logFile[i].key)
  /\ \A h \in InFlight :
       /\ req[h].status = StatusUnauthorized <=> BadKey(req[h].key)
       /\ BadKey(req[h].key) <=> req[h].pc = "log" /\ req[h].error = "invalid API key"
  /\ \A i \in 1 .. Len(rlHist) : ~BadKey(rlHist[i].key)

\* the log shows a 401 for the unknown key and, for a request without the
\* header and for one with a whitelisted key, the answer of a backend
Wit_C16_AuthDecision ==
  \E i \in LogIdx, j \in LogIdx, k \in LogIdx :
    /\ logFile[i].key = "bogus" /\ logFile[i].status = StatusUnauthorized
    /\ logFile[j].key = "" /\ logFile[j].status = StatusOK
    /\ logFile[k].key = "key-admin" /\ logFile[k].status = StatusOK

\* handler h takes a step of a request that is answered 401
Step401(h) ==
  /\ req'[h] # req[h]
  /\ req[h].status = StatusUnauthorized \/ req'[h].status = StatusUnauthorized

\* C17: a request answered 401 takes two steps, the rejection and the
\* writing of its log entry; neither changes a bucket, the limiter's lock,
\* the cursor, a liveness flag or the load balancer's lock, the request is
\* never given a backend, and the one entry it writes has status 401, no
\* backend and a non-empty error.
Thm_C17_RejectedTouchesNothing ==
  [][\A h \in Handlers : Step401(h) =>
        /\ UNCHANGED << ipLimits, keyLimits, rlMu, rlHist, rlPre >>
        /\ UNCHANGED << alive, current, lbMu, probes, backendMu, picks >>
        /\ IF req[h].pc = "idle"
             THEN /\ req'[h].pc = "log"
                  /\ req'[h].backend = None
                  /\ req'[h].error # ""
                  /\ logFile' = logFile
             ELSE /\ req[h].pc = "log"
                  /\ req'[h].pc = "idle"
                  /\ logFile' = Append(logFile, EntryOf(h))
                  /\ EntryOf(h).status = StatusUnauthorized
                  /\ EntryOf(h).backend = None
                  /\ EntryOf(h).error # ""]_vars

\* a 401 has been logged after other requests had made a bucket and moved
\* the cursor, and both are as those requests left them
Wit_C17_RejectedTouchesNothing ==
  /\ Len(logFile) = 3
  /\ logFile[3].status = StatusUnauthorized
  /\ logFile[3].error # ""
  /\ logFile[1].status = StatusOK
  /\ logFile[2].status = StatusOK
  /\ Len(rlHist) = 2
  /\ Len(picks) = 2
  /\ InFlight = {}

Denials == {i \in 1 .. Len(rlHist) : ~rlHist[i].ok}

\* C18: a request the rate limiter denies is answered 429 and goes straight
\* to the log with a non-empty error and no backend: there is one 429 per
\* denial, and LoadBalancer.Next is called once per request the limiter
\* allowed and never for another.
Thm_C18_DeniedStopsAtLimiter ==
  /\ \A h \in InFlight : req[h].status = StatusTooManyRequests =>
       /\ req[h].pc = "log"
       /\ req[h].backend = None
       /\ req[h].error # ""
  /\ \A i \in LogIdx : logFile[i].status = StatusTooManyRequests =>
       /\ logFile[i].backend = None
       /\ logFile[i].error # ""
  /\ Cardinality(Denials) =
       Cardinality({i \in LogIdx : logFile[i].status = StatusTooManyRequests})
       + Cardinality({h \in InFlight : req[h].status = StatusTooManyRequests})
  /\ Len(picks) + Cardinality({h \in InFlight : req[h].pc \in {"next", "nextScan"}})
       = Len(rlHist) - Cardinality(Denials)

\* a denied request has been logged, the two before it were forwarded, and
\* Next has been called for those two only
Wit_C18_DeniedStopsAtLimiter ==
  /\ Len(rlHist) = 3
  /\ Denials = {3}
  /\ Len(picks) = 2
  /\ Len(logFile) = 3
  /\ logFile[3].status = StatusTooManyRequests
  /\ logFile[3].error = "rate limit exceeded"
  /\ InFlight = {}

\* handler h takes the step in which LoadBalancer.Next returns
NextReturns(h) == req[h].pc = "nextScan" /\ Len(picks') = Len(picks) + 1

\* handler h takes a step of a request that is answered 503
Step503(h) ==
  /\ req'[h] # req[h]
  /\ req[h].status = StatusServiceUnavailable

\* C19: a request for which Next returns nil gets status 503 with a
\* non-empty error and no backend and goes to the log, and its next step
\* writes that entry: it is never forwarded.  A request for which Next
\* returns a backend is forwarded to that backend.
Thm_C19_NoBackendIs503 ==
  [][\A h \in Handlers :
        /\ NextReturns(h) =>
             IF picks'[Len(picks')].ret = None
               THEN /\ req'[h].pc = "log"
                    /\ req'[h].status = StatusServiceUnavailable
                    /\ req'[h].backend = None
                    /\ req'[h].error # ""
               ELSE /\ req'[h].pc = "proxy"
                    /\ req'[h].backend = picks'[Len(picks')].ret
                    /\ req'[h].status # StatusServiceUnavailable
        /\ Step503(h) =>
             /\ req[h].pc = "log"
             /\ req'[h].pc = "idle"
             /\ logFile' = Append(logFile, EntryOf(h))
             /\ EntryOf(h).backend = None
             /\ EntryOf(h).error # ""]_vars

\* with every backend dead a request has been answered 503 and logged
Wit_C19_NoBackendIs503 ==
  /\ Live = {}
  /\ picks # << >>
  /\ picks[Len(picks)].ret = None
  /\ logFile # << >>
  /\ logFile[Len(logFile)].status = StatusServiceUnavailable
  /\ logFile[Len(logFile)].backend = None
  /\ logFile[Len(logFile)].error = "no healthy backends available"

\* ---------------------------------------------------------------------
\* The status-change lines of the health checker (checked under SpecHC)
\* ---------------------------------------------------------------------

\* a checkBackendHealth call on backend b ends in this step
ProbeEnds(b) == probes'[b] < probes[b]

\* C21: a probe that leaves the liveness flag of its backend as it was
\* writes no status-change line about it, whether the backend is alive and
\* the probe succeeded or it is dead and the probe failed; and no step that
\* is not the end of a probe writes one.
Thm_C21_SilentSelfTransition ==
  [][\A b \in Backends :
        /\ ProbeEnds(b) /\ alive'[b] = alive[b] => notes'[b] = notes[b]
        /\ ~ProbeEnds(b) => notes'[b] = notes[b]]_vars

\* a probe of an alive backend has succeeded and has left no line, and a
\* backend already reported unhealthy, with that one line about it, is
\* being probed again by a call that has failed and holds backend.mu
Wit_C21_SilentSelfTransition ==
  \E a \in Probed, b \in Backends :
    /\ alive[a] /\ Probe200(probeRes[a]) /\ notes[a] = NoNote
    /\ ~alive[b] /\ notes[b] = [last |-> "unhealthy", odd |-> TRUE]
    /\ backendMu[b] = Prober /\ ProbeFailed(probeRes[b])

\* ---------------------------------------------------------------------
\* Detection of failure and recovery (checked under SpecHL)
\* ---------------------------------------------------------------------

\* no request holds backend b as the one chosen for it
Unrouted(b) == \A h \in Handlers : req[h].backend # b

ForwardEnds(h) == req[h].pc = "proxy" /\ req'[h].pc # "proxy"

\* C23: a liveness flag changes only in the step that ends a
\* checkBackendHealth call on that backend; no step of a request handler
\* changes one, and the end of a forward, failed or not, leaves every flag
\* and every status-change record as it was.
Thm_C23_OnlyProbesWriteAlive ==
  [][/\ \A b \in Backends : alive'[b] # alive[b] =>
           /\ ProbeEnds(b)
           /\ \A h \in Handlers : req'[h].pc = req[h].pc
     /\ \A h \in Handlers : ForwardEnds(h) =>
           /\ alive' = alive
           /\ notes' = notes]_vars

\* a forward to a backend has failed, and the backend is still alive although
\* the health checker has been at work on the flags
Wit_C23_OnlyProbesWriteAlive ==
  \E h \in Handlers :
    /\ req[h].pc = "log"
    /\ req[h].failed
    /\ req[h].backend \in Live
    /\ flipped

Cex_C25_FailedForwardLogged ==
  \A h \in Handlers : req[h].pc = "log" /\ req[h].failed =>
    /\ req[h].status \div 100 = 5
    /\ req[h].backend \in Backends
    /\ req[h].error # ""

\* C26 as claimed: whatever happens to the client while the forward is in
\* flight, the request goes from the forward to the writing of its log
\* entry.
Cex_C26_DisconnectLogged ==
  [][\A h \in Handlers : ForwardEnds(h) => req'[h].pc = "log"]_vars

\* C27 as claimed: every request in the gateway comes to its end.
Cex_C27_RequestTerminates ==
  \A h \in Handlers : (req[h].pc # "idle") ~> (req[h].pc = "idle")

\* ---------------------------------------------------------------------
\* Properties of handleHealth (checked under SpecHE)
\* ---------------------------------------------------------------------

HealthPcs == {"health", "healthScan", "answered"}

\* handler h takes a step of a /health call
HealthActs(h) ==
  /\ req'[h] # req[h]
  /\ req[h].pc \in HealthPcs \/ req'[h].pc \in HealthPcs

\* a /health call never reaches authentication or the rate limiter, takes
\* no token, leaves the cursor alone and is answered 200 (405 when the
\* method is not GET)
HealthFrame ==
  \A h \in Handlers :
    /\ HealthActs(h) =>
          /\ UNCHANGED << ipLimits, keyLimits, rlHist, current, logFile >>
          /\ req'[h].pc \in HealthPcs \cup {"idle"}
    /\ (req[h].pc = "healthScan" /\ req'[h].pc = "answered") =>
          req'[h].status = StatusOK /\ TotalBackends = Cardinality(Backends)

\* the count a /health call reports is a number of live backends there
\* was at some moment of the call
HealthCount ==
  \A h \in Handlers :
    (req[h].pc = "healthScan" /\ req'[h].pc = "answered") =>
      req'[h].healthy \in req'[h].counts

\* C28 as claimed: GET /health is answered 200 whatever key the request
\* carries and however empty its IP bucket is, takes no token, leaves the
\* cursor alone, and reports as healthy_backends the number of backends
\* whose liveness flag is true and as total_backends the configured number.
Cex_C28_HealthEndpoint == [][HealthFrame /\ HealthCount]_vars

\* the part of C28 that the data race on Alive leaves standing
HealthFrameHolds == [][HealthFrame]_vars

\* a /health call with an invalid key, answered 200 while the IP bucket of
\* its client has no token left
HealthAnsweredExhausted ==
  \E h \in Handlers :
    /\ req[h].pc = "answered" /\ req[h].status = StatusOK
    /\ req[h].key = "bogus"
    /\ req[h].ip \in DOMAIN ipLimits
    /\ ipLimits[req[h].ip].tokens < TokenUnit

\* ---------------------------------------------------------------------
\* Properties of RequestLogger.Log (checked under SpecLG)
\* ---------------------------------------------------------------------

\* s is the beginning of t
IsPrefix(s, t) ==
  /\ Len(s) <= Len(t)
  /\ \A i \in 1 .. Len(s) : s[i] = t[i]

\* C29: the file holds complete entries only, in the order in which their
\* writers took the logger's lock, followed by at most the beginning of the
\* record of the one writer that holds the lock.
Thm_C29_LogRecordsWhole ==
  /\ \A i \in 1 .. Len(logFile) : logFile[i] # Garbled
  /\ IsPrefix(logFile, logAcq)
  /\ Len(logPart) <= 1
  /\ IsPrefix(logFile \o logPart, logAcq)
  /\ Len(logAcq) <= Len(logFile) + 1

\* one writer is in the middle of its record while the other waits for the
\* lock with a different entry, after an entry has been written
Wit_C29_LogRecordsWhole ==
  \E h, g \in Handlers :
    /\ req[h].pc = "logWriting" /\ logPart = << Entry(h) >>
    /\ req[g].pc = "log" /\ Entry(g) # Entry(h)
    /\ Len(logFile) >= 1

\* ---------------------------------------------------------------------
\* Independence of the clients' IP limits (checked under SpecV6)
\* ---------------------------------------------------------------------

\* C30 as claimed: requests of different peer addresses, IPv4 or IPv6, never
\* take from the same IP bucket, and so the first request of a peer is
\* never refused for its IP, whatever the other peers have sent.
Cex_C30_IndependentIPLimits ==
  /\ \A i, j \in 1 .. Len(rlHist) :
        rlHist[i].peer # rlHist[j].peer => rlHist[i].ip # rlHist[j].ip
  /\ \A i \in 1 .. Len(rlHist) :
        (\A j \in 1 .. (i - 1) : rlHist[j].peer # rlHist[i].peer)
          => rlHist[i].ipOk

\* the same for the peers whose address holds no ":" but the one before
\* the port
IPv4IndependentLimits ==
  /\ \A i, j \in 1 .. Len(rlHist) :
        Len(rlHist[i].peer) = 1 /\ Len(rlHist[j].peer) = 1
          /\ rlHist[i].peer # rlHist[j].peer
        => rlHist[i].ip # rlHist[j].ip
  /\ \A i \in 1 .. Len(rlHist) :
        Len(rlHist[i].peer) = 1
          /\ (\A j \in 1 .. (i - 1) : rlHist[j].peer # rlHist[i].peer)
        => rlHist[i].ipOk

\* the first request of an IPv6 peer is refused for its IP
FirstRequestRefused ==
  \E i \in 1 .. Len(rlHist) :
    /\ \A j \in 1 .. (i - 1) : rlHist[j].peer # rlHist[i].peer
    /\ ~rlHist[i].ipOk

\* ---------------------------------------------------------------------
\* LoadBalancer.Next as a function of cursor and flags (checked under SpecLB)
\* ---------------------------------------------------------------------

\* the least i in 0 .. N-1 for which the backend at (c + i) mod N is live,
\* N when there is none
FirstLive(c) ==
  IF \E i \in 0 .. (NumBackends - 1) : alive[(c + i) % NumBackends]
    THEN CHOOSE i \in 0 .. (NumBackends - 1) :
           /\ alive[(c + i) % NumBackends]
           /\ \A j \in 0 .. (i - 1) : ~alive[(c + j) % NumBackends]
    ELSE NumBackends

\* C31: a Next call that starts with cursor c returns the backend at
\* (c + i) mod N for the least i whose flag is true and leaves the cursor at
\* (c + i + 1) mod N; it looks at no more than N positions and the backend
\* it returns is one whose flag it has just read as true.
Thm_C31_NextFunction ==
  [][\A h \in Handlers :
       /\ req[h].pc = "nextScan" => req[h].i <= NumBackends
       /\ NextReturns(h) =>
            LET c == req[h].start
                i == req[h].i
                ret == req'[h].backend
            IN /\ ret # None =>
                    /\ i < NumBackends
                    /\ ret = (c + i) % NumBackends
                    /\ alive[ret]
                    /\ current' = (c + i + 1) % NumBackends
               /\ ~req[h].dirty =>
                    /\ i = FirstLive(c)
                    /\ (ret = None) = (FirstLive(c) = NumBackends)]_vars

\* a call that started at the last position has gone round to an earlier
\* one, past dead backends, while no flag changed
Wit_C31_NextFunction ==
  \E k \in 1 .. Len(picks) :
    /\ picks[k].ret # None /\ ~picks[k].dirty
    /\ picks[k].start = NumBackends - 1
    /\ picks[k].ret = 1
    /\ current = 2

\* ---------------------------------------------------------------------
\* The stages of a request (checked under SpecGW)
\* ---------------------------------------------------------------------

\* the order of the stages: received and authenticated ("allow"), or
\* refused for its key; rate-checked ("next"), or refused for its rate;
\* routed ("proxy"), or refused for want of a backend; proxied ("log");
\* logged and responded ("idle")
StageOrder ==
  { << "idle", "allow" >>, << "idle", "log" >>,
    << "allow", "allowLocked" >>,
    << "allowLocked", "next" >>, << "allowLocked", "log" >>,
    << "next", "nextScan" >>,
    << "nextScan", "proxy" >>, << "nextScan", "log" >>,
    << "proxy", "log" >>,
    << "log", "idle" >> }

\* every step of a request is one of order, and the step that ends the
\* request writes its entry, with the status of the response, before
\* handleRequest returns
StagesIn(order) ==
  \A h \in Handlers :
    /\ req'[h].pc # req[h].pc => << req[h].pc, req'[h].pc >> \in order
    /\ (req[h].pc # "idle" /\ req'[h].pc = "idle") =>
          /\ req[h].status # 0
          /\ logFile' = Append(logFile, Entry(h))

\* C32 as claimed: a request goes through its stages in order, a refusal
\* skipping the later ones, and its log entry is written once the status of
\* the response is known and before the response is handed back.
Cex_C32_StageOrder == [][StagesIn(StageOrder)]_vars

\* the order that stands when the forward that breaks off is set apart
StageOrderButAbort ==
  [][\A h \in Handlers :
       /\ req'[h].pc # req[h].pc =>
            << req[h].pc, req'[h].pc >> \in StageOrder \cup {<< "proxy", "idle" >>}
       /\ (req[h].pc = "log" /\ req'[h].pc = "idle") =>
            /\ req[h].status # 0
            /\ logFile' = Append(logFile, Entry(h))]_vars

\* ---------------------------------------------------------------------
\* The entry against the response (checked under SpecRW)
\* ---------------------------------------------------------------------

\* the entry that handler h is about to write has the status the client is
\* given, and names a backend unless the request was refused
EntryAgrees(h) ==
  /\ req[h].status = req[h].client
  /\ (req[h].backend = None) = (req[h].error # "")
  /\ req[h].backend # None => req[h].backend \in Backends

\* C33 as claimed: the status in the entry of a request is the status its
\* client received, and the backend in it is the one Next chose, none when
\* the request was refused with 401, 429 or 503.
Cex_C33_EntryMatchesResponse ==
  \A h \in Handlers : req[h].pc = "log" => EntryAgrees(h)

\* the same for the requests whose backend sent no interim response
EntryAgreesButInterim ==
  \A h \in Handlers :
    req[h].pc = "log" /\ req[h].status # StatusEarlyHints => EntryAgrees(h)

\* ---------------------------------------------------------------------
\* Probes that overlap (checked under SpecOV)
\* ---------------------------------------------------------------------

ProbeOK == [err |-> FALSE, code |-> StatusOK]

\* a checkBackendHealth goroutine of backend b is in client.Get
InGet(b) == InStage(flight[b], "io") # {}

\* C34: while a probe of one backend is in its client.Get, however long, it
\* holds no lock, and neither the probes of the other backends, which can
\* take their backend's lock and set its flag as soon as they have their
\* answer, nor LoadBalancer.Next nor the next tick of the loop wait for it.
Thm_C34_ProbesIndependent ==
  \A a \in Backends : InGet(a) =>
    /\ lbMu # Prober
    /\ backendMu[a] = Prober => InStage(flight[a], "locked") # {}
    /\ \A b \in Backends \ {a} : InGet(b) /\ backendMu[b] = NoHolder =>
          /\ ENABLED ProbeLock(b, ProbeOK)
          /\ ENABLED CheckBackendHealth(b, ProbeOK)
    /\ \A h \in Handlers : req[h].pc = "next" /\ lbMu = NoHolder =>
          ENABLED NextLock(h)
    /\ lbMu = NoHolder /\ (\A b \in Backends : probes[b] < MaxOverlap) =>
          ENABLED StartProbes(MaxOverlap)

\* the probe of backend 0 started by one tick is still in client.Get after
\* the next tick; meanwhile both probes of backend 1 have set its flag and
\* a Next call has returned
Wit_C34_ProbesIndependent ==
  /\ Len(flight[0]) = 2 /\ flight[0][1].st = "io" /\ flight[0][2].st = "io"
  /\ flight[1] = << >>
  /\ picks # << >>

\* ---------------------------------------------------------------------
\* The cursor and the backend list (checked under SpecNB)
\* ---------------------------------------------------------------------

\* C35: with one backend or more the cursor is an index of the backend
\* list in every state; the list keeps its length; with no backend Next
\* returns nil and leaves the cursor as it is.
Thm_C35_CursorInRange ==
  /\ (nb >= 1 => current \in 0 .. (nb - 1))
  /\ [][/\ nb' = nb
        /\ nb >= 1 => current' \in 0 .. (nb - 1)
        /\ nb = 0 =>
              /\ current' = current
              /\ \A h \in Handlers :
                    NextReturns(h) => req'[h].backend = None]_vars

\* the cursor of a gateway with backends has gone round to 0 from the last
\* position
Wit_C35_CursorInRange ==
  /\ nb = NumBackends
  /\ \E k \in 1 .. Len(picks) : picks[k].ret = nb - 1
  /\ current = 0

\* a gateway without backends has answered a Next call
NoBackendsAnswered == nb = 0 /\ picks # << >> /\ current = 0

\* ---------------------------------------------------------------------
\* The cursor during an outage (checked under SpecLB)
\* ---------------------------------------------------------------------

\* C36: while every liveness flag is false no step moves the cursor, and
\* a Next call that returns then returns nil: when backends come back the
\* rotation goes on from the position it had when the last one went.
Thm_C36_CursorKeptInOutage ==
  [][(\A b \in Backends : ~alive[b] /\ ~alive'[b]) =>
       /\ current' = current
       /\ \A h \in Handlers : NextReturns(h) => req'[h].backend = None]_vars

\* every backend is dead, Next has returned nil twice since the last one
\* went, and the cursor is where the rotation had left it, not at 0
Wit_C36_CursorKeptInOutage ==
  /\ \A b \in Backends : ~alive[b]
  /\ Len(picks) >= 2
  /\ \A k \in 1 .. Len(picks) : picks[k].ret = None
  /\ current = 2

\* ---------------------------------------------------------------------
\* Tokens are not given back (checked under SpecCH)
\* ---------------------------------------------------------------------

\* C37: from the Allow call of a request on, through every later stage of
\* that request and until the next Allow call, each bucket the call has
\* charged holds one token less than its refill had given it: the token of
\* the IP bucket stays taken when the key bucket denies (429) and when Next
\* finds no live backend (503).
Thm_C37_NoRefund ==
  rlHist # << >> =>
    LET e == LastCall
    IN /\ e.ipOk =>
            /\ e.ip \in DOMAIN ipLimits
            /\ ipLimits[e.ip].tokens + TokenUnit = IpRefilled(e)
       /\ e.ipOk /\ e.key # "" /\ e.ok =>
            /\ e.key \in DOMAIN keyLimits
            /\ keyLimits[e.key].tokens + TokenUnit = KeyRefilled(e)

\* the last Allow call, made after the clock has moved, has charged the IP
\* bucket and was denied by the key bucket, while an earlier request that
\* had passed the rate limiter has found no live backend
Wit_C37_NoRefund ==
  /\ rlHist # << >>
  /\ LastCall.ipOk /\ LastCall.key # "" /\ ~LastCall.ok
  /\ LastCall.t > 0
  /\ req[rlPre.by].pc = "log"
  /\ \E h \in Handlers :
       /\ h # rlPre.by
       /\ req[h].pc = "log" /\ req[h].status = StatusServiceUnavailable

\* C38 as claimed: the probes of a backend set its flag in the order in
\* which they were started, and when none is running the flag has the value
\* that the most recently started probe gave it.
Cex_C38_ProbeOrder ==
  \A b \in Backends :
    /\ InStage(flight[b], "done") = {}
    /\ probes[b] = 0 => alive[b] = newest[b]

\* no probe runs and the flag of backend 0 is not what its most recently
\* started probe made it
StaleFlag == probes[0] = 0 /\ alive[0] # newest[0]

\* C39: the status-change lines about a backend alternate, "unhealthy"
\* first: their number is odd exactly when the last one says "unhealthy",
\* and, one line being written per change of the flag, exactly when the
\* flag is false; this under probes of the backend that overlap.
Thm_C39_NotesAlternate ==
  \A b \in Backends :
    /\ notes[b].odd = (notes[b].last = "unhealthy")
    /\ notes[b].odd = ~alive[b]
    /\ notes[b].last = "" => alive[b]

\* backend 0 has been reported unhealthy and healthy again, and of two of
\* its probes that run together one is in the critical section with an
\* error while the other is still in client.Get
Wit_C39_NotesAlternate ==
  /\ notes[0].last = "healthy" /\ alive[0]
  /\ \E k \in InStage(flight[0], "locked") : ProbeFailed(flight[0][k].o)
  /\ InGet(0)

\* ---------------------------------------------------------------------
\* The locks (checked under SpecDL)
\* ---------------------------------------------------------------------

\* the locks handler h holds
HeldBy(h) ==
  (IF lbMu = h THEN {"lb"} ELSE {}) \cup (IF rlMu = h THEN {"rl"} ELSE {})
    \cup (IF logMu = h THEN {"log"} ELSE {})

\* the locks a handler holds at each point of handleRequest and handleHealth
HeldAt(pc) ==
  IF pc = "allowLocked" THEN {"rl"}
  ELSE IF pc \in {"nextScan", "healthScan"} THEN {"lb"}
  ELSE IF pc \in {"logLocked", "logWriting"} THEN {"log"}
  ELSE {}

\* C40: a handler holds the lock of the call it is in and no other, and
\* none once the call has returned; the health-check loop and the probes
\* never hold a lock of the handlers, and a probe holds the mutex of its
\* own backend only in its critical section; so the holder of a lock can
\* always take its next step, and no one waits for a lock for ever.
Thm_C40_NoDeadlock ==
  /\ \A h \in Handlers :
       /\ HeldBy(h) = HeldAt(req[h].pc)
       /\ Cardinality(HeldBy(h)) <= 1
       /\ rlMu = h => ENABLED AllowBody(h)
       /\ lbMu = h => ENABLED (NextStep(h) \/ HealthStep(h))
       /\ logMu = h => ENABLED (LogHead(h) \/ LogTail(h))
  /\ Prober \notin {lbMu, rlMu, logMu}
  /\ \A b \in Backends :
       /\ backendMu[b] \in {NoHolder, Prober}
       /\ (backendMu[b] = Prober) = (InStage(flight[b], "locked") # {})
       /\ backendMu[b] = Prober => ENABLED ProbeWrite(b)

\* the four kinds of lock are held at once, each by another goroutine,
\* after a handler has gone through Allow and Next and returned
Wit_C40_NoDeadlock ==
  /\ backendMu[0] = Prober
  /\ \E h, g \in Handlers :
       /\ lbMu = h /\ req[h].pc = "healthScan"
       /\ logMu = g
  /\ rlHist # << >>

====
